---------------------------- MODULE Spec2Model ----------------------------
(***************************************************************************)
(* Model of the Emotiva Fusion Flex RS232 driver (emotiva_rs232):          *)
(*   - FusionFlexProtocol: the frame reassembler (_process_data),          *)
(*   - FusionFlexDevice: the status state machine (_process_message),      *)
(*     the status-changed callback, the lifecycle (async_start, stop) and  *)
(*     the outbound commands.                                              *)
(*                                                                         *)
(* Conventions.                                                            *)
(*   - A Python str is a sequence of one-character strings.                *)
(*   - Optional[T] is a set of at most one element: None is {}, a value x  *)
(*     is {x}.                                                             *)
(*   - A float volume is an integer number of tenths of a dB (-95.5 dB is  *)
(*     -955): every value the driver parses has exactly one decimal digit. *)
(*     A volume passed by a caller is an integer number of thousandths of  *)
(*     a dB and a fraction an integer number of hundredths.                *)
(*   - Python objects of class FusionFlexStatus live in heap, a function   *)
(*     from object identities to field records; _status holds a reference. *)
(***************************************************************************)
EXTENDS Integers, Sequences, FiniteSets, TLC

(***************************************************************************)
(* Bounds of the model.                                                    *)
(***************************************************************************)
\* length of the run of filler bytes a chunk may consist of
FillLen == 7

\* the async_start calls that may be in flight together
MaxTasks == 2

Tasks == 1..MaxTasks

\* most complete frames concatenated in one chunk
MaxFrames == 2

\* chunks received in the ordering scenario
MaxChunks == 3

(***************************************************************************)
(* Optional values.                                                        *)
(***************************************************************************)
None == {}
Some(x) == {x}
Get(o) == CHOOSE x \in o : TRUE

(***************************************************************************)
(* Module constants of fusion_flex.py.                                     *)
(***************************************************************************)
\* tenths of a dB
MIN_VOLUME_DB == -955
MAX_VOLUME_DB == 0
_BUFFER_SIZE == 16

SQ == "'"
AT == "@"
\* a byte >= 0x80, which the ascii codec cannot decode
NONASCII == "\\x80"
_MESSAGE_START_STR == <<SQ, AT>>
_MESSAGE_END_STR == <<SQ>>

(***************************************************************************)
(* class RS232Command: the fixed wire strings.                             *)
(***************************************************************************)
Wrap(body) == _MESSAGE_START_STR \o body \o _MESSAGE_END_STR
POWER_ON == Wrap(<<"1", "1", "2">>)
POWER_OFF == Wrap(<<"1", "1", "3">>)
SELECT_INPUT_1 == Wrap(<<"1", "5", "A">>)
SELECT_INPUT_2 == Wrap(<<"1", "5", "B">>)
SELECT_INPUT_AUTO == Wrap(<<"1", "5", "Z">>)
MUTE_ON == Wrap(<<"1", "1", "Q">>)
MUTE_OFF == Wrap(<<"1", "1", "R">>)
MUTE_TOGGLE == Wrap(<<"1", "1", "U">>)
VOLUME_UP == Wrap(<<"1", "1", "S">>)
VOLUME_DOWN == Wrap(<<"1", "1", "T">>)

(***************************************************************************)
(* class FusionFlexSourceMode.                                             *)
(***************************************************************************)
\* const.py, ConnectionType
SERIAL == 0

UDP == 1

AUTO == 0
INPUT_1 == 1
INPUT_2 == 2

(***************************************************************************)
(* Python str operations used by _process_data.                            *)
(***************************************************************************)
\* s.startswith(p)
StartsWith(s, p) == Len(s) >= Len(p) /\ SubSeq(s, 1, Len(p)) = p

\* whether sep occurs in s at the 1-based index i
OccursAt(s, sep, i) ==
    /\ i + Len(sep) - 1 <= Len(s)
    /\ \A j \in 1..Len(sep) : s[i + j - 1] = sep[j]

\* the 0-based index of the first occurrence of sep in s at or after the
\* 1-based index i, -1 when there is none
RECURSIVE FindFrom(_, _, _)
FindFrom(s, sep, i) ==
    IF i + Len(sep) - 1 > Len(s) THEN -1
    ELSE IF OccursAt(s, sep, i) THEN i - 1
    ELSE FindFrom(s, sep, i + 1)

\* s.find(sep)
Find(s, sep) == FindFrom(s, sep, 1)

\* s.split(sep): occurrences of sep are taken left to right and do not
\* overlap; the result has one more element than there are occurrences
RECURSIVE Split(_, _)
Split(s, sep) ==
    LET k == Find(s, sep) IN
    IF k < 0 THEN <<s>>
    ELSE <<SubSeq(s, 1, k)>> \o Split(SubSeq(s, k + Len(sep) + 1, Len(s)), sep)

\* data.decode("ascii") raises UnicodeDecodeError on a byte >= 0x80
DecodeFails(data) == \E i \in 1..Len(data) : data[i] = NONASCII


(***************************************************************************)
(* FusionFlexProtocol._process_data: the loop over the split segments.     *)
(***************************************************************************)
\* a plausible slip: only the pending bytes are measured, not the segment
OverflowsPendingOnly(buffer, segment) == ~(Len(buffer) <= _BUFFER_SIZE)

\* line 128 negated: appending the segment would exceed _BUFFER_SIZE
Overflows(buffer, segment) == ~(Len(buffer) + Len(segment) <= _BUFFER_SIZE)

\* a plausible slip: the overflow branch leaves the pending bytes in place
OverflowBufferKept(buffer, segment) ==
    IF ~Overflows(buffer, segment) THEN buffer \o segment ELSE buffer

\* lines 128-131: the buffer after a segment with no message end
OverflowBuffer(buffer, segment) ==
    IF ~Overflows(buffer, segment) THEN buffer \o segment ELSE <<>>

\* line 133: the message handed to the callback is the buffer plus the
\* whole segment; msg_end is only tested for its sign
Message(buffer, segment) == buffer \o segment

\* a plausible slip: the newest message is put in front of the earlier ones
EmitMessageFirst(out, msg) == <<msg>> \o out

\* line 134 and FusionFlexProtocol._process_message: the callback is
\* called with msg, after the messages of the earlier segments
EmitMessage(out, msg) == Append(out, msg)

\* a plausible slip: the start token is appended to the pending bytes
PendingBufferAppended(buffer, first_segment) ==
    IF ~first_segment THEN buffer \o _MESSAGE_START_STR ELSE buffer

\* lines 119-122: a segment after the first had the start token removed by
\* split, so the buffer restarts from the start token
PendingBuffer(buffer, first_segment) ==
    IF ~first_segment THEN _MESSAGE_START_STR ELSE buffer

\* a plausible slip: line 132 continues with the next segment instead of
\* returning
RECURSIVE ProcessSegmentsNoReturn(_, _, _, _, _)
ProcessSegmentsNoReturn(segs, k, buffer, first_segment, out) ==
    IF k > Len(segs)
    THEN [buffer |-> buffer, out |-> out, overflow |-> FALSE]
    ELSE LET segment == segs[k] IN
         IF Len(segment) = 0
         THEN ProcessSegmentsNoReturn(segs, k + 1, buffer, FALSE, out)
         ELSE LET buf == PendingBuffer(buffer, first_segment) IN
              IF StartsWith(buf, _MESSAGE_START_STR)
              THEN IF Find(segment, _MESSAGE_END_STR) < 0
                   THEN ProcessSegmentsNoReturn(segs, k + 1, OverflowBuffer(buf, segment),
                                                FALSE, out)
                   ELSE ProcessSegmentsNoReturn(segs, k + 1, <<>>, FALSE,
                                                EmitMessage(out, Message(buf, segment)))
              ELSE ProcessSegmentsNoReturn(segs, k + 1, buf, FALSE, out)

\* lines 115-136, from segment k on, with the loop's variables: the buffer,
\* first_segment and the messages emitted so far.  The result also records
\* whether line 131 ran (overflow).
RECURSIVE ProcessSegments(_, _, _, _, _)
ProcessSegments(segs, k, buffer, first_segment, out) ==
    IF k > Len(segs)
    THEN [buffer |-> buffer, out |-> out, overflow |-> FALSE]
    ELSE LET segment == segs[k] IN
         IF Len(segment) = 0
         THEN ProcessSegments(segs, k + 1, buffer, FALSE, out)
         ELSE LET buf == PendingBuffer(buffer, first_segment) IN
              IF StartsWith(buf, _MESSAGE_START_STR)
              THEN IF Find(segment, _MESSAGE_END_STR) < 0
                   THEN [buffer |-> OverflowBuffer(buf, segment),
                         out |-> out,
                         overflow |-> Overflows(buf, segment)]
                   ELSE ProcessSegments(segs, k + 1, <<>>, FALSE,
                                        EmitMessage(out, Message(buf, segment)))
              ELSE ProcessSegments(segs, k + 1, buf, FALSE, out)

\* _process_data on a decodable chunk, from the buffer it finds
ProcessData(buffer, data_str) ==
    ProcessSegments(Split(data_str, _MESSAGE_START_STR), 1, buffer, TRUE, <<>>)

(***************************************************************************)
(* FusionFlexStatus and FusionFlexDevice._process_message.                 *)
(***************************************************************************)
\* a plausible slip: the mute flag starts at False instead of None
FusionFlexStatusUnmuted(is_turned_on) ==
    [is_turned_on |-> is_turned_on, volume_db |-> None,
     source_mode |-> None, is_muted |-> Some(FALSE)]

\* FusionFlexStatus.__init__
FusionFlexStatus(is_turned_on) ==
    [is_turned_on |-> is_turned_on, volume_db |-> None,
     source_mode |-> None, is_muted |-> None]

\* the public setters of FusionFlexStatus (lines 178-192): the value is
\* stored as given
SetStatusField(status, field, value) == [status EXCEPT ![field] = value]

Digits == {"0", "1", "2", "3", "4", "5", "6", "7", "8", "9"}

DigitValue(c) ==
    CASE c = "0" -> 0 [] c = "1" -> 1 [] c = "2" -> 2 [] c = "3" -> 3
      [] c = "4" -> 4 [] c = "5" -> 5 [] c = "6" -> 6 [] c = "7" -> 7
      [] c = "8" -> 8 [] c = "9" -> 9

\* a plausible slip: the pattern accepts any fraction digit
IsVolumeReportAnyFraction(msg) ==
    /\ Len(msg) \in {11, 12}
    /\ SubSeq(msg, 1, 4) = <<SQ, AT, "1", "1">>
    /\ msg[5] \in {"S", "T", "P"}
    /\ msg[6] = "-"
    /\ msg[7] \in Digits /\ msg[8] \in Digits
    /\ msg[9] = "."
    /\ msg[10] \in Digits
    /\ msg[11] = SQ
    /\ Len(msg) = 12 => msg[12] = "\n"

\* line 267: re.search(r"^'@11[STP](-\d\d\.[05])'$", msg); without
\* re.MULTILINE the $ also matches before one final newline
IsVolumeReport(msg) ==
    /\ Len(msg) \in {11, 12}
    /\ SubSeq(msg, 1, 4) = <<SQ, AT, "1", "1">>
    /\ msg[5] \in {"S", "T", "P"}
    /\ msg[6] = "-"
    /\ msg[7] \in Digits /\ msg[8] \in Digits
    /\ msg[9] = "."
    /\ msg[10] \in {"0", "5"}
    /\ msg[11] = SQ
    /\ Len(msg) = 12 => msg[12] = "\n"

\* line 273: float(result.group(1)) of the group "-DD.F", in tenths of a dB
ParseVolume(msg) ==
    0 - (100 * DigitValue(msg[7]) + 10 * DigitValue(msg[8]) + DigitValue(msg[10]))

\* the messages of the elif chain, lines 274-287
FixedInbound ==
    {POWER_ON, POWER_OFF, SELECT_INPUT_1, SELECT_INPUT_2, SELECT_INPUT_AUTO,
     MUTE_ON, MUTE_OFF}

\* a plausible slip: the final else does not return
RecognizedAll(msg) == TRUE

\* lines 267-290: whether some branch other than the final else takes msg
Recognized(msg) == IsVolumeReport(msg) \/ msg \in FixedInbound

\* lines 268-287: the one field the matching branch assigns
ApplyRule(status, msg) ==
    CASE IsVolumeReport(msg) -> [status EXCEPT !.volume_db = Some(ParseVolume(msg))]
      [] msg = POWER_ON -> [status EXCEPT !.is_turned_on = TRUE]
      [] msg = POWER_OFF -> [status EXCEPT !.is_turned_on = FALSE]
      [] msg = SELECT_INPUT_1 -> [status EXCEPT !.source_mode = Some(INPUT_1)]
      [] msg = SELECT_INPUT_2 -> [status EXCEPT !.source_mode = Some(INPUT_2)]
      [] msg = SELECT_INPUT_AUTO -> [status EXCEPT !.source_mode = Some(AUTO)]
      [] msg = MUTE_ON -> [status EXCEPT !.is_muted = Some(TRUE)]
      [] msg = MUTE_OFF -> [status EXCEPT !.is_muted = Some(FALSE)]
      [] OTHER -> status

\* a plausible slip: the post-processing rule is left out
ForceOnNever(status, msg) == status

\* lines 291-292
ForceOn(status, msg) ==
    IF msg # POWER_OFF THEN [status EXCEPT !.is_turned_on = TRUE] ELSE status


(***************************************************************************)
(* The device as a value: d.status is FusionFlexDevice._status (a          *)
(* reference or None), d.heap the FusionFlexStatus objects, d.local the    *)
(* local variable status of _process_message, d.seen what the registered   *)
(* observer read from device.status each time it was invoked, d.accepted   *)
(* how many messages went past the final else.                             *)
(***************************************************************************)
\* the status property read by a caller, with the fields of the object
Observe(d) ==
    IF d.status = None
    THEN None
    ELSE Some([ref |-> Get(d.status), fields |-> d.heap[Get(d.status)]])

\* lines 265-292: status is the object _status refers to, or a new one;
\* the assignments go to that object in place
MutateStatus(d, msg) ==
    LET obj == IF d.status # None THEN Get(d.status) ELSE Len(d.heap) + 1
        old == IF d.status # None THEN d.heap[obj] ELSE FusionFlexStatus(TRUE)
        new == ForceOn(ApplyRule(old, msg), msg)
    IN  [d EXCEPT !.heap = IF obj > Len(d.heap) THEN Append(d.heap, new)
                           ELSE [d.heap EXCEPT ![obj] = new],
                  !.local = obj]

\* line 293
CommitStatus(d) == [d EXCEPT !.status = Some(d.local)]

\* lines 294-296: the observer, when one is registered, reads device.status
InvokeCallback(d, callback) ==
    IF callback THEN [d EXCEPT !.seen = Append(@, Observe(d))] ELSE d

\* a plausible slip: the callback is invoked before _status is assigned
NotifyThenCommit(d, callback) == CommitStatus(InvokeCallback(d, callback))

\* lines 293-296
CommitAndNotify(d, callback) == InvokeCallback(CommitStatus(d), callback)

\* FusionFlexDevice._process_message; an object created for a message that
\* is then ignored is never referenced and leaves the heap as it was
DeviceProcessMessage(d, callback, msg) ==
    IF ~Recognized(msg)
    THEN d
    ELSE [CommitAndNotify(MutateStatus(d, msg), callback) EXCEPT !.accepted = @ + 1]

\* the callback of the protocol is the device's _process_message, called
\* once per emitted message, in order
RECURSIVE DeliverAll(_, _, _, _)
DeliverAll(d, callback, msgs, k) ==
    IF k > Len(msgs) THEN d
    ELSE DeliverAll(DeviceProcessMessage(d, callback, msgs[k]), callback, msgs, k + 1)

(***************************************************************************)
(* Outbound: the volume conversions, the volume-set command and            *)
(* FusionFlexProtocol.send.  A fraction is an integer number of hundredths *)
(* and a volume passed by a caller an integer number of thousandths of a   *)
(* dB, so that MIN_VOLUME_DB + fraction * (MAX_VOLUME_DB - MIN_VOLUME_DB)  *)
(* is exact; every tie of round() falls on a value a float holds exactly.  *)
(* A conversion that raises ValueError yields None.                        *)
(***************************************************************************)
Abs(n) == IF n < 0 THEN -n ELSE n

\* Python round(n / d) for d > 0: the nearest integer, a tie going to the
\* even one
Round(n, d) ==
    LET q == n \div d
        r == n % d
    IN  IF 2 * r < d THEN q
        ELSE IF 2 * r > d THEN q + 1
        ELSE IF q % 2 = 0 THEN q ELSE q + 1

DigitChar(k) == CHOOSE c \in Digits : DigitValue(c) = k

\* str(n) for n >= 0
RECURSIVE Decimal(_)
Decimal(n) == IF n < 10 THEN <<DigitChar(n)>> ELSE Decimal(n \div 10) \o <<DigitChar(n % 10)>>

\* "{0:04.1f}".format(t / 10) for t >= 0: one decimal, zero-padded to a
\* width of at least 4 characters
Format_04_1f(t) ==
    LET text == Decimal(t \div 10) \o <<".", DigitChar(t % 10)>>
    IN  IF Len(text) < 4 THEN <<"0">> \o text ELSE text

\* lines 375-377: value in thousandths of a dB; rounded_value in tenths
SetVolumeCommand(value) ==
    LET rounded_value == Abs(Round(2 * value, 1000)) * 5
    IN  <<SQ, AT, "1", "1", "P", "-">> \o Format_04_1f(rounded_value) \o <<SQ>>

\* a plausible slip: only the lower limit is checked
VolumeFractionToDecibelsLowOnly(value_fraction) ==
    IF value_fraction < 0
    THEN None
    ELSE Some(MIN_VOLUME_DB * 100 + value_fraction * (MAX_VOLUME_DB - MIN_VOLUME_DB))

\* volume_fraction_to_decibels (lines 223-231): hundredths to thousandths of
\* a dB
VolumeFractionToDecibels(value_fraction) ==
    IF value_fraction < 0 \/ value_fraction > 100
    THEN None
    ELSE Some(MIN_VOLUME_DB * 100 + value_fraction * (MAX_VOLUME_DB - MIN_VOLUME_DB))

\* volume_decibels_to_fraction (lines 233-239): the fraction as num / den
VolumeDecibelsToFraction(value_decibels) ==
    IF value_decibels < MIN_VOLUME_DB * 100 \/ value_decibels > MAX_VOLUME_DB * 100
    THEN None
    ELSE Some([num |-> value_decibels - MIN_VOLUME_DB * 100,
               den |-> (MAX_VOLUME_DB - MIN_VOLUME_DB) * 100])

\* the class of the transport async_start obtains (lines 310, 321): a
\* SerialTransport for a serial connection; for a datagram endpoint a
\* DatagramTransport, or a transport of neither class
TransportClass(connection_type, is_datagram_transport) ==
    IF connection_type = SERIAL THEN "SerialTransport"
    ELSE IF is_datagram_transport THEN "DatagramTransport"
    ELSE "Transport"

\* the host names a datagram device is built with: a numeric address, and
\* names that are not the address they stand for
Hostnames == {"127.0.0.1", "localhost", "127.1"}

\* the numeric address the event loop resolves a host name to when it
\* connects the datagram socket (create_datagram_endpoint, line 324)
Resolve(hostname) ==
    IF hostname \in {"localhost", "127.1"} THEN "127.0.0.1" ELSE hostname

\* the port the device is built with
REMOTE_PORT == 7000

\* the serial port the device is built with
SERIAL_PORT == "/dev/ttyUSB0"

\* a fixed local port
LOCAL_PORT == 7001

\* the local ports a datagram device is built with: 0, the default, for
\* which bind takes any free port, and a fixed one
LocalPorts == {0, LOCAL_PORT}

\* whether a host is a numeric address, which the event loop takes as it is;
\* it looks any other host up, and create_datagram_endpoint (line 324)
\* suspends meanwhile
IsNumeric(hostname) == Resolve(hostname) = hostname

\* whether the bind of create_datagram_endpoint (line 324) to the local
\* endpoint (line 322) finds a fixed port held by the socket of one of the
\* device's transports; a transport closes its socket when it reports
\* connection_lost
PortHeld(ts, local_port) ==
    local_port # 0 /\ \E i \in DOMAIN ts : ~ts[i].lost

\* the remote endpoint async_start hands to the protocol it creates: the
\* serial port (line 313), or the (host, port) pair as given (lines 323, 326)
RemoteEndpoint(connection_type, remote_hostname) ==
    IF connection_type = SERIAL
    THEN <<SERIAL_PORT>>
    ELSE <<Get(remote_hostname), REMOTE_PORT>>

\* the address of the peer the transport's socket is connected to
\* (remote_addr, line 329): the resolved address; a serial transport has none
PeerAddress(connection_type, remote_hostname) ==
    IF connection_type = SERIAL
    THEN None
    ELSE Some(<<Resolve(Get(remote_hostname)), REMOTE_PORT>>)

\* transport.sendto(data, address) (line 147) on a datagram transport: a
\* connected transport accepts its peer's address only and raises ValueError
\* for any other
SendTo(transport, address) ==
    [raised |-> IF transport.address = None
                THEN FALSE
                ELSE address # Get(transport.address)]

\* FusionFlexProtocol.send (lines 138-149) of protocol i, whose transport is
\* transport i once connection_made ran and None before: the isinstance
\* tests of lines 142 and 145, and NotImplementedError otherwise.  sent is
\* the call made on the transport, raised whether an exception left send
Send(ts, i, command) ==
    IF ~ts[i].made
    THEN [raised |-> TRUE, sent |-> <<>>]
    ELSE IF ts[i].kind = "SerialTransport"
    THEN [raised |-> FALSE,
          sent |-> <<[transport |-> i, via |-> "write", data |-> command]>>]
    ELSE IF ts[i].kind = "DatagramTransport"
    THEN [raised |-> SendTo(ts[i], ts[i]._remote_endpoint).raised,
          sent |-> <<[transport |-> i, via |-> "sendto", data |-> command]>>]
    ELSE [raised |-> TRUE, sent |-> <<>>]

\* _send_command (lines 298-301): self._protocol.send raises AttributeError
\* when _protocol is None
SendCommand(protocol, ts, command) ==
    IF protocol = None
    THEN [raised |-> TRUE, sent |-> <<>>]
    ELSE Send(ts, Get(protocol), command)

\* set_volume_level_decibels (lines 367-379)
SetVolumeLevelDecibels(protocol, ts, value) ==
    SendCommand(protocol, ts, SetVolumeCommand(value))

\* set_volume_level_fraction (lines 381-389)
SetVolumeLevelFraction(protocol, ts, value) ==
    LET value_decibels == VolumeFractionToDecibels(value)
    IN  IF value_decibels = None
        THEN [raised |-> TRUE, sent |-> <<>>]
        ELSE SetVolumeLevelDecibels(protocol, ts, Get(value_decibels))

\* select_input_source (lines 391-402)
SelectInputSource(protocol, ts, source) ==
    IF source = AUTO THEN SendCommand(protocol, ts, SELECT_INPUT_AUTO)
    ELSE IF source = INPUT_1 THEN SendCommand(protocol, ts, SELECT_INPUT_1)
    ELSE IF source = INPUT_2 THEN SendCommand(protocol, ts, SELECT_INPUT_2)
    ELSE [raised |-> TRUE, sent |-> <<>>]

(***************************************************************************)
(* State.                                                                  *)
(*   _buffer                    FusionFlexProtocol._buffer                 *)
(*   _status, heap              FusionFlexDevice._status and its objects   *)
(*   _status_changed_callback   whether an observer is registered          *)
(* Observations of the last call (op, with its argument arg):              *)
(*   emitted      the messages the protocol passed to its callback         *)
(*   seen         what the observer read at each of its invocations        *)
(*   accepted     how many messages the device accepted                    *)
(*   prev         device.status as it was before the call                  *)
(*   overflowed   whether the buffer overflowed (line 131)                 *)
(*   raised       whether an exception left the call                       *)
(*   everOverflowed  whether some call so far overflowed                   *)
(* The split-frame scenario: frame, cut (bytes in the first chunk) and     *)
(* phase (chunks delivered so far).  The resynchronisation scenario:       *)
(* pending, the buffer as it was before the last chunk.  The ordering      *)
(* scenario: calls, for each chunk received so far the buffer before it,   *)
(* the chunk and the messages the protocol emitted for it.                 *)
(*                                                                         *)
(* The facade (FusionFlexDevice.__init__, lines 241-261):                  *)
(*   _started, _transport, _protocol, _connection_type                     *)
(*   _remote_hostname  the host the device was built with (None for a      *)
(*                serial device)                                           *)
(*   _local_port  the local port the device was built with                 *)
(*   datagram_transport  whether the transport the event loop creates for  *)
(*                a datagram endpoint is an instance of                    *)
(*                asyncio.DatagramTransport: it is in CPython 3.12 and     *)
(*                later, it is not in CPython 3.8 to 3.11                  *)
(*   transports   the transports created so far, in order; transport i     *)
(*                comes with protocol i.  made is whether connection_made  *)
(*                (line 77) ran, which sets the protocol's transport       *)
(*                attribute; waiter is the async_start call that waits for *)
(*                the transport, 0 when none does.  kind is its class,     *)
(*                address the peer its socket is connected to,             *)
(*                _remote_endpoint what protocol i was given (line 71),    *)
(*                closed whether close() was called on it, lost whether    *)
(*                it reported connection_lost to its protocol              *)
(*   pc           where each async_start call stands: "idle" (not          *)
(*                running), or suspended at the await of line 310/321:     *)
(*                "resolving" while the remote host is looked up,          *)
(*                "awaiting" while the transport it created is being       *)
(*                connected                                                *)
(* Observed of the last facade call: param (its numeric argument), sent    *)
(* (the calls it made on a transport), result (what a conversion           *)
(* returned); of the last datagram: addr (where it came from).             *)
(***************************************************************************)
VARIABLES _buffer, _status, heap, _status_changed_callback,
          op, arg, emitted, seen, accepted, prev, overflowed, raised,
          everOverflowed, frame, cut, phase, pending, calls,
          _started, _transport, _protocol, _connection_type, _remote_hostname,
          _local_port, datagram_transport, transports, pc,
          param, sent, result, addr

vars == <<_buffer, _status, heap, _status_changed_callback,
          op, arg, emitted, seen, accepted, prev, overflowed, raised,
          everOverflowed, frame, cut, phase, pending, calls,
          _started, _transport, _protocol, _connection_type, _remote_hostname,
          _local_port, datagram_transport, transports, pc,
          param, sent, result, addr>>

scenario == <<frame, cut, phase, pending, calls>>

\* what is fixed when the device is constructed
build == <<_connection_type, _remote_hostname, _local_port, datagram_transport>>

facade == <<_started, _transport, _protocol, build, transports, pc>>

call == <<param, sent, result>>

\* the device at the start of a call
Device == [status |-> _status, heap |-> heap, local |-> 0, seen |-> <<>>, accepted |-> 0]

(***************************************************************************)
(* Inputs.                                                                 *)
(***************************************************************************)
Fill(n) == [i \in 1..n |-> "x"]

\* '@11<cmd>-<d1><d2>.<f>'
VolumeReport(cmd, d1, d2, f) == Wrap(<<"1", "1", cmd, "-", d1, d2, ".", f>>)

UNKNOWN_99X == Wrap(<<"9", "9", "X">>)

\* frames the amplifier sends in the stream scenario
StreamFrames == {POWER_ON, POWER_OFF, UNKNOWN_99X, VolumeReport("P", "9", "9", "5")}

\* frames that also arrive cut in two
CutFrames == {POWER_ON, VolumeReport("P", "9", "9", "5")}

\* frames that arrive several to a chunk
RunFrames == {POWER_ON, POWER_OFF, VolumeReport("P", "9", "9", "5")}

\* every way of cutting f into two non-empty chunks
Cuts(f) == UNION {{SubSeq(f, 1, k), SubSeq(f, k + 1, Len(f))} : k \in 1..(Len(f) - 1)}

\* the chunks made of exactly n frames
RECURSIVE Runs(_)
Runs(n) == IF n = 0 THEN {<<>>} ELSE {f \o r : f \in RunFrames, r \in Runs(n - 1)}

Chunks ==
    StreamFrames
    \cup UNION {Cuts(f) : f \in CutFrames}
    \cup UNION {Runs(n) : n \in 2..MaxFrames}
    \cup {Fill(FillLen), _MESSAGE_START_STR \o Fill(_BUFFER_SIZE + 1)}
    \cup {POWER_ON \o <<"x">>, POWER_ON \o <<"\n">>}
    \cup {<<SQ, AT, "1", NONASCII>>}

\* messages handed directly to the device
Messages ==
    {POWER_ON, POWER_OFF, SELECT_INPUT_1, SELECT_INPUT_2, SELECT_INPUT_AUTO,
     MUTE_ON, MUTE_OFF, MUTE_TOGGLE, VOLUME_UP, VOLUME_DOWN, UNKNOWN_99X}
    \cup {VolumeReport(c, d[1], d[2], d[3]) :
            c \in {"S", "T", "P"},
            d \in {<<"0", "0", "0">>, <<"0", "3", "0">>, <<"9", "5", "5">>,
                   <<"9", "6", "0">>, <<"9", "9", "5">>, <<"0", "3", "2">>}}
    \cup {VolumeReport("X", "0", "3", "0"), VolumeReport("P", "0", "3", "0") \o <<"\n">>,
          POWER_ON \o <<"x">>}

\* frames cut in two in the split-frame scenario: the fixed commands, a
\* volume report and a frame of exactly _BUFFER_SIZE bytes
SplitFrames ==
    {POWER_ON, POWER_OFF, SELECT_INPUT_1, MUTE_ON, MUTE_TOGGLE, UNKNOWN_99X,
     VolumeReport("S", "0", "3", "0"), Wrap(<<AT>>), Wrap(Fill(_BUFFER_SIZE - 3))}

(***************************************************************************)
(* Operations.                                                             *)
(***************************************************************************)
InitCore ==
    /\ _buffer = <<>>
    /\ _status = None
    /\ heap = <<>>
    /\ _status_changed_callback = FALSE
    /\ op = "__init__"
    /\ arg = <<>>
    /\ emitted = <<>>
    /\ seen = <<>>
    /\ accepted = 0
    /\ prev = None
    /\ overflowed = FALSE
    /\ raised = FALSE
    /\ everOverflowed = FALSE
    /\ pending = <<>>
    /\ calls = <<>>

\* _process_data(data) (line 111), with the device's _process_message as
\* the protocol's callback
Inbound(data) ==
    /\ arg' = data
    /\ prev' = Observe(Device)
    /\ UNCHANGED _status_changed_callback
    /\ IF DecodeFails(data)
       THEN /\ raised' = TRUE
            /\ emitted' = <<>>
            /\ seen' = <<>>
            /\ accepted' = 0
            /\ overflowed' = FALSE
            /\ UNCHANGED <<_buffer, _status, heap, everOverflowed>>
       ELSE \E r \in {ProcessData(_buffer, data)} :
            \E d \in {DeliverAll(Device, _status_changed_callback, r.out, 1)} :
                /\ raised' = FALSE
                /\ _buffer' = r.buffer
                /\ emitted' = r.out
                /\ overflowed' = r.overflow
                /\ everOverflowed' = (everOverflowed \/ r.overflow)
                /\ _status' = d.status
                /\ heap' = d.heap
                /\ seen' = d.seen
                /\ accepted' = d.accepted

\* FusionFlexDevice.__init__ (lines 257-260), but for the connection type;
\* no call was made yet
InitFacade ==
    /\ _started = FALSE
    /\ _transport = None
    /\ _protocol = None
    /\ transports = <<>>
    /\ pc = [t \in Tasks |-> "idle"]
    /\ param = 0
    /\ sent = <<>>
    /\ result = None
    /\ addr = ""

\* FusionFlexProtocol.data_received(data) (lines 87-88)
DataReceived(data) ==
    /\ op' = "data_received"
    /\ Inbound(data)

\* FusionFlexDevice._process_message(msg)
ProcessMessage(msg) ==
    \E d \in {DeviceProcessMessage(Device, _status_changed_callback, msg)} :
        /\ op' = "_process_message"
        /\ arg' = msg
        /\ prev' = Observe(Device)
        /\ _status' = d.status
        /\ heap' = d.heap
        /\ seen' = d.seen
        /\ accepted' = d.accepted
        /\ emitted' = <<>>
        /\ overflowed' = FALSE
        /\ raised' = FALSE
        /\ UNCHANGED <<_buffer, _status_changed_callback, everOverflowed>>

\* FusionFlexDevice.set_status_changed(callback): an observer, or None
SetStatusChanged(callback) ==
    /\ _status_changed_callback' = callback
    /\ op' = "set_status_changed"
    /\ UNCHANGED <<_buffer, _status, heap, arg, emitted, seen, accepted, prev,
                   overflowed, raised, everOverflowed>>

\* a holder of status object ref (obtained from device.status or as the
\* observer) assigns one of its properties (lines 178-192): no message is
\* processed and no observer is invoked
StatusSet(ref, field, value) ==
    /\ ref \in DOMAIN heap
    /\ heap' = [heap EXCEPT ![ref] = SetStatusField(heap[ref], field, value)]
    /\ op' = "status." \o field
    /\ arg' = <<>>
    /\ prev' = Observe(Device)
    /\ emitted' = <<>>
    /\ seen' = <<>>
    /\ accepted' = 0
    /\ overflowed' = FALSE
    /\ raised' = FALSE
    /\ UNCHANGED <<_buffer, _status, _status_changed_callback, everOverflowed>>

\* the address the protocol was given as its remote endpoint, and another
REMOTE_ENDPOINT == "amplifier"

OTHER_ENDPOINT == "stranger"

\* FusionFlexProtocol.datagram_received(data, addr) (lines 90-96)
DatagramReceived(data, address) ==
    /\ op' = "datagram_received"
    /\ addr' = address
    /\ IF REMOTE_ENDPOINT = address
       THEN Inbound(data)
       ELSE /\ arg' = data
            /\ prev' = Observe(Device)
            /\ raised' = FALSE
            /\ emitted' = <<>>
            /\ seen' = <<>>
            /\ accepted' = 0
            /\ overflowed' = FALSE
            /\ UNCHANGED <<_buffer, _status, heap, _status_changed_callback,
                           everOverflowed>>

\* what the protocol and the status machine hold
core == <<_buffer, _status, heap, _status_changed_callback, arg, emitted, seen,
          accepted, prev, overflowed, everOverflowed>>

\* a facade call named name with numeric argument p and outcome r
Command(name, p, r) ==
    /\ op' = name
    /\ param' = p
    /\ raised' = r.raised
    /\ sent' = r.sent
    /\ result' = None
    /\ UNCHANGED <<core, facade, addr, scenario>>

\* lines 347-365 and 404-410
TurnOn == Command("turn_on", 0, SendCommand(_protocol, transports, POWER_ON))

TurnOff == Command("turn_off", 0, SendCommand(_protocol, transports, POWER_OFF))

MuteOn == Command("mute_on", 0, SendCommand(_protocol, transports, MUTE_ON))

MuteOff == Command("mute_off", 0, SendCommand(_protocol, transports, MUTE_OFF))

MuteToggle == Command("mute_toggle", 0, SendCommand(_protocol, transports, MUTE_TOGGLE))

VolumeUp == Command("volume_up", 0, SendCommand(_protocol, transports, VOLUME_UP))

VolumeDown == Command("volume_down", 0, SendCommand(_protocol, transports, VOLUME_DOWN))

SetVolumeDb(value) ==
    Command("set_volume_level_decibels", value,
            SetVolumeLevelDecibels(_protocol, transports, value))

SetVolumeFraction(value) ==
    Command("set_volume_level_fraction", value,
            SetVolumeLevelFraction(_protocol, transports, value))

SelectInput(source) ==
    Command("select_input_source", source, SelectInputSource(_protocol, transports, source))

\* a call of one of the static conversions
Convert(name, p, r) ==
    /\ op' = name
    /\ param' = p
    /\ raised' = (r = None)
    /\ result' = r
    /\ sent' = <<>>
    /\ UNCHANGED <<core, facade, addr, scenario>>

FractionToDecibels(value) ==
    Convert("volume_fraction_to_decibels", value, VolumeFractionToDecibels(value))

DecibelsToFraction(value) ==
    Convert("volume_decibels_to_fraction", value, VolumeDecibelsToFraction(value))

\* the transport, with its protocol, that create_serial_connection (line
\* 310) or create_datagram_endpoint (line 321) creates for call t
NewTransport(t) ==
    [kind |-> TransportClass(_connection_type, datagram_transport),
     address |-> PeerAddress(_connection_type, _remote_hostname),
     _remote_endpoint |-> RemoteEndpoint(_connection_type, _remote_hostname),
     made |-> FALSE, waiter |-> t, closed |-> FALSE, lost |-> FALSE]

\* the await of line 310/321 raises (OSError: the port cannot be opened or
\* bound, the host is unknown or unreachable): async_start ends there, and
\* neither line 310/321 nor line 335 assigns
StartFails(t) ==
    /\ raised' = TRUE
    /\ pc' = [pc EXCEPT ![t] = "idle"]
    /\ UNCHANGED <<_started, _transport, _protocol, transports>>

\* the transport exists and call t is suspended until it is connected
StartAwaits(t) ==
    /\ raised' = FALSE
    /\ transports' = Append(transports, NewTransport(t))
    /\ pc' = [pc EXCEPT ![t] = "awaiting"]
    /\ UNCHANGED <<_started, _transport, _protocol>>

\* the await returned transport i of ts and its protocol: lines 310/321
\* assign them and line 335 sets _started
StartReturns(t, ts, i) ==
    /\ raised' = FALSE
    /\ transports' = [ts EXCEPT ![i].waiter = 0]
    /\ _transport' = Some(i)
    /\ _protocol' = Some(i)
    /\ _started' = TRUE
    /\ pc' = [pc EXCEPT ![t] = "idle"]

\* create_datagram_endpoint (line 321) once the addresses are known: it
\* binds the local endpoint and connects the socket, which fails when the
\* fixed local port is held or the network refuses, then creates the
\* transport and waits for connection_made
CreateEndpoint(t) ==
    \E reachable \in BOOLEAN :
        IF PortHeld(transports, _local_port) \/ ~reachable
        THEN StartFails(t)
        ELSE StartAwaits(t)

\* async_start (lines 303-335) up to where it first suspends, returns or
\* raises.  It returns at once when _started is set (line 306).  A serial
\* port is opened, or not, at once; whether create_serial_connection then
\* suspends before it returns is left open.  A datagram endpoint with a
\* numeric remote host is created at once; any other host is looked up
\* first, and the call is suspended meanwhile
AsyncStartCall(t) ==
    /\ pc[t] = "idle"
    /\ op' = "async_start"
    /\ param' = t
    /\ sent' = <<>>
    /\ result' = None
    /\ IF _started
       THEN /\ raised' = FALSE
            /\ UNCHANGED <<_started, _transport, _protocol, transports, pc>>
       ELSE IF _connection_type = SERIAL
       THEN \E opened \in BOOLEAN, suspends \in BOOLEAN :
                IF ~opened THEN StartFails(t)
                ELSE IF suspends THEN StartAwaits(t)
                ELSE StartReturns(t, Append(transports, NewTransport(t)),
                                  Len(transports) + 1)
       ELSE IF IsNumeric(Get(_remote_hostname))
       THEN CreateEndpoint(t)
       ELSE /\ raised' = FALSE
            /\ pc' = [pc EXCEPT ![t] = "resolving"]
            /\ UNCHANGED <<_started, _transport, _protocol, transports>>
    /\ UNCHANGED <<core, addr, scenario, build>>

\* async_start resumed inside the await of line 321 when the lookup of the
\* remote host is over: it failed, or the endpoint is created.  _started
\* is not tested again
AsyncStartResolved(t) ==
    /\ pc[t] = "resolving"
    /\ op' = "async_start_resolved"
    /\ param' = t
    /\ sent' = <<>>
    /\ result' = None
    /\ \E resolved \in BOOLEAN :
           IF ~resolved THEN StartFails(t) ELSE CreateEndpoint(t)
    /\ UNCHANGED <<core, addr, scenario, build>>

\* FusionFlexProtocol.connection_made (lines 76-78) of protocol i, which
\* the event loop calls in a turn of its own after the transport was created
ConnectionMade(i) ==
    /\ i \in DOMAIN transports
    /\ ~transports[i].made
    /\ op' = "connection_made"
    /\ param' = i
    /\ raised' = FALSE
    /\ sent' = <<>>
    /\ result' = None
    /\ transports' = [transports EXCEPT ![i].made = TRUE]
    /\ UNCHANGED <<core, addr, scenario, _started, _transport, _protocol,
                   build, pc>>

\* async_start from the end of its await on: the transport call t waits for
\* is connected (the event loop wakes the call after connection_made),
\* lines 310/321 assign it and its protocol and line 335 sets _started
AsyncStartResume(t) ==
    /\ pc[t] = "awaiting"
    /\ op' = "async_start_resumed"
    /\ param' = t
    /\ sent' = <<>>
    /\ result' = None
    /\ \E i \in DOMAIN transports :
           /\ transports[i].waiter = t
           /\ IF transports[i].kind = "SerialTransport"
              THEN TRUE
              ELSE transports[i].made
           /\ StartReturns(t, transports, i)
    /\ UNCHANGED <<core, addr, scenario, build>>

\* stop (lines 337-342)
Stop ==
    /\ op' = "stop"
    /\ param' = 0
    /\ raised' = FALSE
    /\ sent' = <<>>
    /\ result' = None
    /\ transports' = IF _transport # None
                     THEN [transports EXCEPT ![Get(_transport)].closed = TRUE]
                     ELSE transports
    /\ _transport' = None
    /\ _protocol' = None
    /\ UNCHANGED <<core, addr, scenario, _started, build, pc>>

\* transport i reports its closure: FusionFlexProtocol.connection_lost
\* (lines 80-85) of protocol i logs it
ConnectionLost(i) ==
    /\ i \in DOMAIN transports
    /\ transports[i].made
    /\ transports[i].waiter = 0
    /\ ~transports[i].lost
    /\ op' = "connection_lost"
    /\ param' = i
    /\ raised' = FALSE
    /\ sent' = <<>>
    /\ result' = None
    /\ transports' = [transports EXCEPT ![i].lost = TRUE]
    /\ UNCHANGED <<core, addr, scenario, _started, _transport, _protocol,
                   build, pc>>

(***************************************************************************)
(* Spec: a connection receiving chunks of a stream.                        *)
(***************************************************************************)
Init ==
    /\ InitCore
    /\ InitFacade
    /\ _connection_type = UDP
    /\ _remote_hostname = Some("127.0.0.1")
    /\ _local_port = 0
    /\ datagram_transport = TRUE
    /\ frame = <<>> /\ cut = 0 /\ phase = 0

Receive == \E data \in Chunks : DataReceived(data) /\ UNCHANGED <<scenario, facade, call, addr>>

Subscribe ==
    \E callback \in BOOLEAN :
        SetStatusChanged(callback) /\ UNCHANGED <<scenario, facade, call, addr>>

Next == Receive \/ Subscribe

Spec == Init /\ [][Next]_vars

(***************************************************************************)
(* SpecDevice: the status state machine fed whole messages.                *)
(***************************************************************************)
Handle ==
    \E msg \in Messages : ProcessMessage(msg) /\ UNCHANGED <<scenario, facade, call, addr>>

NextDevice == Handle \/ Subscribe

SpecDevice == Init /\ [][NextDevice]_vars

(***************************************************************************)
(* SpecHolder: the status state machine fed whole messages, while a holder *)
(* of the status object assigns its properties.                            *)
(***************************************************************************)
\* what a holder assigns; volumes in tenths of a dB
Assignments ==
    {<<"is_turned_on", b>> : b \in BOOLEAN}
    \cup {<<"volume_db", Some(v)>> : v \in {50, -30}}
    \cup {<<"source_mode", Some(INPUT_1)>>}
    \cup {<<"is_muted", Some(b)>> : b \in BOOLEAN}

\* messages handed to the device in this scenario
HolderMessages ==
    {POWER_ON, POWER_OFF, SELECT_INPUT_2, MUTE_ON, MUTE_TOGGLE,
     VolumeReport("P", "0", "3", "0")}

HandleFew ==
    \E msg \in HolderMessages :
        ProcessMessage(msg) /\ UNCHANGED <<scenario, facade, call, addr>>

HolderSets ==
    \E ref \in DOMAIN heap, a \in Assignments :
        StatusSet(ref, a[1], a[2]) /\ UNCHANGED <<scenario, facade, call, addr>>

NextHolder == HandleFew \/ Subscribe \/ HolderSets

SpecHolder == Init /\ [][NextHolder]_vars

(***************************************************************************)
(* SpecSplit: one frame cut into two chunks, delivered to a protocol       *)
(* whose buffer is empty.                                                  *)
(***************************************************************************)
InitSplit ==
    /\ InitCore
    /\ InitFacade
    /\ _connection_type = UDP
    /\ _remote_hostname = Some("127.0.0.1")
    /\ _local_port = 0
    /\ datagram_transport = TRUE
    /\ frame \in SplitFrames
    /\ cut \in 1..(_BUFFER_SIZE - 1)
    /\ cut < Len(frame)
    /\ phase = 0

FeedFirst ==
    /\ phase = 0
    /\ DataReceived(SubSeq(frame, 1, cut))
    /\ phase' = 1
    /\ UNCHANGED <<frame, cut, pending, calls, facade, call, addr>>

FeedSecond ==
    /\ phase = 1
    /\ DataReceived(SubSeq(frame, cut + 1, Len(frame)))
    /\ phase' = 2
    /\ UNCHANGED <<frame, cut, pending, calls, facade, call, addr>>

NextSplit == FeedFirst \/ FeedSecond

SpecSplit == InitSplit /\ [][NextSplit]_vars

(***************************************************************************)
(* SpecInbound: a serial protocol receiving chunks, or a UDP protocol      *)
(* receiving datagrams from its remote endpoint and from elsewhere.        *)
(***************************************************************************)
InboundChunks ==
    StreamFrames \cup Cuts(POWER_ON) \cup {<<SQ, AT, "1", NONASCII>>, <<NONASCII>>}

InitInbound ==
    /\ InitCore
    /\ InitFacade
    /\ _connection_type \in {SERIAL, UDP}
    /\ _remote_hostname = (IF _connection_type = UDP THEN Some("127.0.0.1") ELSE None)
    /\ _local_port = 0
    /\ datagram_transport = TRUE
    /\ frame = <<>> /\ cut = 0 /\ phase = 0

ReceiveStream ==
    /\ _connection_type = SERIAL
    /\ \E data \in InboundChunks :
           DataReceived(data) /\ UNCHANGED <<scenario, facade, call, addr>>

ReceiveDatagram ==
    /\ _connection_type = UDP
    /\ \E data \in InboundChunks, address \in {REMOTE_ENDPOINT, OTHER_ENDPOINT} :
           DatagramReceived(data, address) /\ UNCHANGED <<scenario, facade, call>>

NextInbound == ReceiveStream \/ ReceiveDatagram

SpecInbound == InitInbound /\ [][NextInbound]_vars

(***************************************************************************)
(* SpecResync: chunks in which a start token follows other bytes.          *)
(***************************************************************************)
ResyncChunks ==
    {POWER_ON, POWER_OFF, <<SQ, AT, "1">>, <<SQ, AT, "1", "1">>, <<"2", SQ>>, <<SQ>>,
     <<"1", "1">> \o POWER_OFF,
     <<SQ, AT, "1", "1">> \o POWER_OFF,
     <<"2", SQ>> \o POWER_OFF,
     _MESSAGE_START_STR \o Fill(_BUFFER_SIZE + 1) \o POWER_OFF,
     Fill(FillLen) \o POWER_OFF,
     _MESSAGE_START_STR \o _MESSAGE_START_STR,
     _MESSAGE_START_STR \o _MESSAGE_START_STR \o <<"1", "1">>}

ReceiveResync ==
    \E data \in ResyncChunks :
        /\ DataReceived(data)
        /\ pending' = _buffer
        /\ UNCHANGED <<frame, cut, phase, calls, facade, call, addr>>

SpecResync == Init /\ [][ReceiveResync]_vars

(***************************************************************************)
(* SpecOrder: a few chunks in a row, some holding several frames, with a   *)
(* record of what each chunk emitted.                                      *)
(***************************************************************************)
OrderChunks ==
    {POWER_ON,
     POWER_ON \o POWER_OFF,
     POWER_OFF \o UNKNOWN_99X \o POWER_ON,
     <<SQ, AT, "1", "1">>,
     <<"2", SQ>>,
     <<"3", SQ>> \o POWER_ON \o POWER_OFF,
     <<SQ, AT, "1", "1">> \o POWER_ON \o POWER_OFF,
     <<"1">> \o POWER_ON \o POWER_OFF,
     POWER_ON \o <<"x">> \o POWER_OFF}

ReceiveOrdered ==
    /\ Len(calls) < MaxChunks
    /\ \E data \in OrderChunks :
           /\ DataReceived(data)
           /\ calls' = Append(calls, [pending |-> _buffer, data |-> data,
                                      emitted |-> emitted'])
    /\ UNCHANGED <<frame, cut, phase, pending, facade, call, addr>>

SpecOrder == Init /\ [][ReceiveOrdered]_vars

(***************************************************************************)
(* SpecFacade: one device, its async_start calls interleaved with stop,    *)
(* with closures reported by the transports, with commands and with        *)
(* messages from the amplifier.                                            *)
(***************************************************************************)
\* volumes in thousandths of a dB
Decibels ==
    {-100000, -99750, -99700, -96000, -95600, -95500, -47750, -3200, -3000,
     -750, -250, 0, 250, 3200}

\* fractions in hundredths
Fractions == {-10, -1, 0, 1, 25, 50, 100, 101, 110}

\* FusionFlexSourceMode and a value outside it
Sources == {AUTO, INPUT_1, INPUT_2, INPUT_2 + 1}

InitDevice ==
    /\ InitCore
    /\ InitFacade
    /\ _connection_type \in {SERIAL, UDP}
    /\ _remote_hostname \in (IF _connection_type = UDP
                              THEN {Some(h) : h \in Hostnames}
                              ELSE {None})
    /\ _local_port \in (IF _connection_type = UDP THEN LocalPorts ELSE {0})
    /\ datagram_transport \in (IF _connection_type = UDP THEN BOOLEAN ELSE {TRUE})
    /\ frame = <<>> /\ cut = 0 /\ phase = 0

Start == \E t \in Tasks : AsyncStartCall(t)

Resolved == \E t \in Tasks : AsyncStartResolved(t)

Made == \E i \in 1..MaxTasks : ConnectionMade(i)

Established == \E t \in Tasks : AsyncStartResume(t)

Closure == \E i \in 1..MaxTasks : ConnectionLost(i)

SetDecibels == \E value \in {-100000, -3200} : SetVolumeDb(value)

SetFraction == \E value \in {50, 110} : SetVolumeFraction(value)

Select == \E source \in Sources : SelectInput(source)

\* whether a protocol processes what its transport receives: all of it
\* through data_received (lines 87-88); through datagram_received (lines
\* 90-96) what comes from its remote endpoint, and a connected socket
\* receives from its peer
Listens(transport) ==
    IF transport.address = None
    THEN TRUE
    ELSE transport._remote_endpoint = Get(transport.address)

\* whether a transport reads: from connection_made on, once the call that
\* waited for it went on, until close() or its closure
Reads(transport) ==
    /\ transport.made
    /\ transport.waiter = 0
    /\ ~transport.closed
    /\ ~transport.lost

\* a protocol whose transport reads delivers a message
Deliver ==
    /\ \E i \in DOMAIN transports : Reads(transports[i]) /\ Listens(transports[i])
    /\ ProcessMessage(POWER_ON)
    /\ UNCHANGED <<scenario, facade, call, addr>>

NextFacade ==
    \/ Start \/ Resolved \/ Made \/ Established \/ Stop \/ Closure
    \/ TurnOn \/ TurnOff \/ MuteOn \/ MuteOff \/ MuteToggle \/ VolumeUp \/ VolumeDown
    \/ SetDecibels \/ SetFraction \/ Select
    \/ Deliver

SpecFacade == InitDevice /\ [][NextFacade]_vars

(***************************************************************************)
(* SpecVolume: one device started once, and the volume operations.         *)
(***************************************************************************)
StartOnce == AsyncStartCall(1)

ResolvedOnce == AsyncStartResolved(1)

MadeOnce == ConnectionMade(1)

EstablishedOnce == AsyncStartResume(1)

SetAnyDecibels == \E value \in Decibels : SetVolumeDb(value)

SetAnyFraction == \E value \in Fractions : SetVolumeFraction(value)

ConvertFraction == \E value \in Fractions : FractionToDecibels(value)

ConvertDecibels == \E value \in Decibels : DecibelsToFraction(value)

NextVolume ==
    \/ StartOnce \/ ResolvedOnce \/ MadeOnce \/ EstablishedOnce
    \/ SetAnyDecibels \/ SetAnyFraction \/ ConvertFraction \/ ConvertDecibels

SpecVolume == InitDevice /\ [][NextVolume]_vars

(***************************************************************************)
(* Properties.                                                             *)
(***************************************************************************)
\* a frame: the start token, a body without apostrophes, the end token
IsFrame(m) ==
    /\ Len(m) >= 3
    /\ m[1] = SQ /\ m[2] = AT
    /\ m[Len(m)] = SQ
    /\ \A i \in 3..(Len(m) - 1) : m[i] # SQ

\* the fields of the object _status refers to
Fields == heap[Get(_status)]

\* the last call was _process_message and went past the final else
AcceptedMessage == op = "_process_message" /\ accepted = 1

\* C1: a valid frame of at most 16 bytes cut into two non-empty chunks and
\* delivered to a protocol with an empty buffer is emitted exactly once,
\* after the second chunk, and the message equals the frame.
C1_SplitFrameEmittedOnce ==
    /\ phase = 1 => emitted = <<>>
    /\ phase = 2 => emitted = <<frame>>

\* C2: every emitted message begins with the start token and ends at the
\* first end token after it; no later byte of the chunk is part of it.
C2_MessageEndsAtFirstEndToken ==
    \A i \in DOMAIN emitted :
        /\ StartsWith(emitted[i], _MESSAGE_START_STR)
        /\ Find(SubSeq(emitted[i], 3, Len(emitted[i])), _MESSAGE_END_STR)
               = Len(emitted[i]) - 3

\* C3: after an accepted message other than PowerOff is_turned_on is true,
\* whatever it was before; after PowerOff it is false.
C3_ForcedOnUnlessPowerOff ==
    AcceptedMessage => (Fields.is_turned_on <=> arg # POWER_OFF)

\* C3 witness: a mute message accepted while the status was off
C3_Witness ==
    /\ AcceptedMessage
    /\ arg = MUTE_ON
    /\ prev # None /\ ~Get(prev).fields.is_turned_on
    /\ Fields.is_turned_on

\* C4: with an observer registered, an accepted message invokes it exactly
\* once, and what it reads from device.status is the committed, updated
\* snapshot.
C4_NotifiedOnceAfterCommit ==
    (AcceptedMessage /\ _status_changed_callback) =>
        /\ Len(seen) = 1
        /\ _status # None
        /\ seen[1] = Some([ref |-> Get(_status), fields |-> Fields])

\* C4 witness: the first message of a device with an observer
C4_Witness ==
    /\ AcceptedMessage /\ _status_changed_callback
    /\ prev = None
    /\ arg = POWER_ON
    /\ Len(seen) = 1 /\ seen[1] # None /\ Get(seen[1]).fields.is_turned_on

\* the message matches none of the transition rules
Unmatched(msg) == msg \notin FixedInbound /\ ~IsVolumeReport(msg)

\* C5: a message that matches no rule leaves device.status as it was
\* (undefined, or the same object with the same fields) and invokes no
\* observer.
C5_UnmatchedIgnored ==
    /\ {UNKNOWN_99X, MUTE_TOGGLE, VOLUME_UP} \subseteq {m \in Messages : Unmatched(m)}
    /\ (op = "_process_message" /\ Unmatched(arg)) =>
           /\ Observe(Device) = prev
           /\ seen = <<>>
           /\ accepted = 0

\* C5 witness: '@11U' ignored by a device with a status and an observer
C5_Witness ==
    /\ op = "_process_message" /\ arg = MUTE_TOGGLE
    /\ _status_changed_callback
    /\ prev # None /\ Observe(Device) = prev
    /\ seen = <<>>

\* C6: a snapshot the observer obtained keeps its field values through
\* every later accepted message, which installs a new object instead.
C6_SnapshotImmutable ==
    [][(op' = "_process_message" /\ accepted' = 1) =>
          \A i \in DOMAIN seen :
              seen[i] # None =>
                  /\ heap'[Get(seen[i]).ref] = Get(seen[i]).fields
                  /\ _status' # Some(Get(seen[i]).ref)]_vars

\* C7: volume_db is undefined or a multiple of 0.5 dB within
\* [MIN_VOLUME_DB, MAX_VOLUME_DB] = [-95.5, 0.0].
C7_VolumeWithinDeviceRange ==
    _status # None =>
        \A v \in Fields.volume_db :
            v % 5 = 0 /\ MIN_VOLUME_DB <= v /\ v <= MAX_VOLUME_DB

\* C7 as amended: volume_db is undefined or a multiple of 0.5 dB within
\* [-99.5, 0.0], the range of the two-digit pattern.
C7_VolumeWithinPatternRange ==
    _status # None =>
        \A v \in Fields.volume_db : v % 5 = 0 /\ -995 <= v /\ v <= 0

\* C7 witness: a volume report below MIN_VOLUME_DB was accepted
C7_Witness ==
    /\ AcceptedMessage
    /\ arg = VolumeReport("P", "9", "9", "5")
    /\ Fields.volume_db = Some(-995)

\* the status a first message starts from: on, everything else undefined
UndefinedStatus ==
    [is_turned_on |-> TRUE, volume_db |-> None, source_mode |-> None, is_muted |-> None]

\* C8: an accepted message sets the field its rule names and the forced
\* is_turned_on; every other field keeps its previous value, undefined for
\* a device that had no status.
C8_OnlyNamedFieldSet ==
    AcceptedMessage =>
        LET old == IF prev = None THEN UndefinedStatus ELSE Get(prev).fields IN
        /\ IF IsVolumeReport(arg)
           THEN Fields.volume_db = Some(ParseVolume(arg))
           ELSE Fields.volume_db = old.volume_db
        /\ Fields.source_mode =
               (CASE arg = SELECT_INPUT_1 -> Some(INPUT_1)
                  [] arg = SELECT_INPUT_2 -> Some(INPUT_2)
                  [] arg = SELECT_INPUT_AUTO -> Some(AUTO)
                  [] OTHER -> old.source_mode)
        /\ Fields.is_muted =
               (CASE arg = MUTE_ON -> Some(TRUE)
                  [] arg = MUTE_OFF -> Some(FALSE)
                  [] OTHER -> old.is_muted)
        /\ Fields.is_turned_on = (arg # POWER_OFF)

\* C8 witness: '@112' processed from an undefined status
C8_Witness ==
    /\ AcceptedMessage
    /\ prev = None
    /\ arg = POWER_ON
    /\ Fields = UndefinedStatus

\* whether a segment holds an end token
Terminated(segment) == Find(segment, _MESSAGE_END_STR) >= 0

\* a segment up to and including its first end token
UpToEnd(segment) == SubSeq(segment, 1, Find(segment, _MESSAGE_END_STR) + 1)

\* whether a partial message is pending in the buffer
Partial(buffer) == StartsWith(buffer, _MESSAGE_START_STR)

\* the complete frames among the segments from the k-th on, in order: a
\* start token, the bytes after it and the first end token, when no other
\* start token comes between
RECURSIVE FramesFrom(_, _)
FramesFrom(segs, k) ==
    IF k > Len(segs) THEN <<>>
    ELSE IF Terminated(segs[k])
    THEN <<_MESSAGE_START_STR \o UpToEnd(segs[k])>> \o FramesFrom(segs, k + 1)
    ELSE FramesFrom(segs, k + 1)

\* the complete frames a chunk contains, in the order they appear
Contained(chunk) == FramesFrom(Split(chunk, _MESSAGE_START_STR), 2)

\* the frame that the leading bytes of a chunk complete, if a partial
\* message was pending and they hold its end token
Completed(buffer, chunk) ==
    LET lead == Split(chunk, _MESSAGE_START_STR)[1] IN
    IF Partial(buffer) /\ Terminated(lead)
    THEN <<buffer \o UpToEnd(lead)>>
    ELSE <<>>

\* the frames whose end token arrives in a chunk, in order
Arrived(buffer, chunk) == Completed(buffer, chunk) \o Contained(chunk)

\* whether the k-th segment of a chunk belongs to a message: it follows a
\* start token of the chunk, or continues the pending partial
InMessage(buffer, k) == k >= 2 \/ Partial(buffer)

\* no bytes of a message that lack an end token come before a frame of the
\* chunk: neither the bytes after one of its start tokens, nor leading
\* bytes that continue a pending partial
Unstalled(buffer, chunk) ==
    LET segs == Split(chunk, _MESSAGE_START_STR) IN
    \A b \in 1..Len(segs), k \in 1..Len(segs) :
        (/\ InMessage(buffer, b) /\ Len(segs[b]) > 0 /\ ~Terminated(segs[b])
         /\ InMessage(buffer, k) /\ Terminated(segs[k]))
            => k < b

\* one message per frame, in the order of the frames, each beginning with
\* its frame
OnePerFrame(msgs, frames) ==
    /\ Len(msgs) = Len(frames)
    /\ \A i \in DOMAIN msgs : StartsWith(msgs[i], frames[i])

\* the messages are those of some of the frames, in the order of the frames
RECURSIVE InArrivalOrder(_, _)
InArrivalOrder(msgs, frames) ==
    IF msgs = <<>> THEN TRUE
    ELSE IF frames = <<>> THEN FALSE
    ELSE IF StartsWith(Head(msgs), Head(frames))
    THEN InArrivalOrder(Tail(msgs), Tail(frames))
    ELSE InArrivalOrder(msgs, Tail(frames))

\* all the messages emitted so far, chunk after chunk
RECURSIVE LogFrom(_)
LogFrom(k) == IF k > Len(calls) THEN <<>> ELSE calls[k].emitted \o LogFrom(k + 1)

\* all the frames that arrived so far, chunk after chunk
RECURSIVE ArrivedFrom(_)
ArrivedFrom(k) ==
    IF k > Len(calls) THEN <<>>
    ELSE Arrived(calls[k].pending, calls[k].data) \o ArrivedFrom(k + 1)

\* C9 as stated: a chunk containing two or more complete frames emits one
\* message per frame, in the order the frames appear in the chunk, and
\* across successive chunks messages are emitted in arrival order.
C9_FramesEmittedInOrder ==
    /\ \A k \in DOMAIN calls :
           Len(Contained(calls[k].data)) >= 2 =>
               OnePerFrame(calls[k].emitted, Arrived(calls[k].pending, calls[k].data))
    /\ InArrivalOrder(LogFrom(1), ArrivedFrom(1))

\* C9 amended: a chunk containing two or more complete frames, none of them
\* preceded by bytes of a message that lack an end token, emits one message
\* per frame, in the order the frames appear in the chunk, and across
\* successive chunks messages are emitted in arrival order.
C9_UnstalledFramesEmittedInOrder ==
    /\ \A k \in DOMAIN calls :
           (/\ Len(Contained(calls[k].data)) >= 2
            /\ Unstalled(calls[k].pending, calls[k].data)) =>
               OnePerFrame(calls[k].emitted, Arrived(calls[k].pending, calls[k].data))
    /\ InArrivalOrder(LogFrom(1), ArrivedFrom(1))

\* C9 witness: '@11 then 3''@112''@113' then '@113''@99X''@112': the second
\* chunk completes the pending frame and holds two more, and the six
\* messages are in arrival order
C9_Witness ==
    /\ Len(calls) = 3
    /\ calls[2].pending = <<SQ, AT, "1", "1">>
    /\ calls[2].data = <<"3", SQ>> \o POWER_ON \o POWER_OFF
    /\ calls[2].emitted = <<POWER_OFF, POWER_ON, POWER_OFF>>
    /\ calls[3].data = POWER_OFF \o UNKNOWN_99X \o POWER_ON
    /\ LogFrom(1) = <<POWER_OFF, POWER_ON, POWER_OFF, POWER_OFF, UNKNOWN_99X, POWER_ON>>

\* the end tokens of a chunk: the apostrophes that do not open a start token
EndTokens(chunk) ==
    Cardinality({i \in 1..Len(chunk) :
                    chunk[i] = SQ /\ ~OccursAt(chunk, _MESSAGE_START_STR, i)})

\* C10: when the pending partial plus an unterminated segment would exceed
\* 16 bytes the buffer is reset, nothing is raised and no message is emitted
\* for the fragment (every emitted message is terminated and took an end
\* token of the chunk); a valid frame delivered afterwards is emitted intact.
C10_OverflowResetsAndRecovers ==
    /\ overflowed =>
           /\ _buffer = <<>>
           /\ ~raised
           /\ Len(emitted) <= EndTokens(arg)
           /\ \A i \in DOMAIN emitted :
                  Find(SubSeq(emitted[i], 3, Len(emitted[i])), _MESSAGE_END_STR) >= 0
    /\ (everOverflowed /\ op = "data_received" /\ IsFrame(arg)) => emitted = <<arg>>

\* C10 witness: '@112' emitted intact by a connection that overflowed before
C10_Witness ==
    /\ everOverflowed /\ ~overflowed
    /\ op = "data_received"
    /\ arg = POWER_ON
    /\ emitted = <<POWER_ON>>

\* the last step was an inbound call that handed its chunk to _process_data
Processed(o, a) ==
    o = "data_received" \/ (o = "datagram_received" /\ a = REMOTE_ENDPOINT)

\* C11: a chunk containing a non-ASCII byte is dropped: data_received or
\* datagram_received returns without raising, the buffer is unchanged and no
\* message is emitted, so that later chunks are processed as if it never came.
C11_NonAsciiChunkDropped ==
    [][(Processed(op', addr') /\ DecodeFails(arg')) =>
           (~raised' /\ _buffer' = _buffer /\ emitted' = <<>>)]_vars

\* the facade is Connected: started, holding a protocol whose transport is
\* established (connection_made ran) and was neither closed nor reported
\* lost
Connected ==
    /\ _started
    /\ _protocol # None
    /\ transports[Get(_protocol)].made
    /\ ~transports[Get(_protocol)].lost
    /\ ~transports[Get(_protocol)].closed

\* C12: set_volume_level_decibels on a connected device sends exactly one
\* command '@11P-DD.F' with two digits DD, F 0 or 5, and DD.F the magnitude of
\* the value rounded to the nearest 0.5 dB, for every numeric value.
C12_VolumeCommandWellFormed ==
    (op = "set_volume_level_decibels" /\ Connected) =>
        /\ ~raised
        /\ Len(sent) = 1
        /\ LET c == sent[1].data IN
           /\ Len(c) = 11
           /\ SubSeq(c, 1, 6) = <<SQ, AT, "1", "1", "P", "-">>
           /\ c[7] \in Digits /\ c[8] \in Digits
           /\ c[9] = "."
           /\ c[10] \in {"0", "5"}
           /\ c[11] = SQ
           /\ LET tenths == 100 * DigitValue(c[7]) + 10 * DigitValue(c[8]) + DigitValue(c[10])
              IN  Abs(100 * tenths - Abs(param)) <= 250

\* the operations that send a command
CommandOps ==
    {"turn_on", "turn_off", "mute_on", "mute_off", "mute_toggle", "volume_up",
     "volume_down", "set_volume_level_decibels", "set_volume_level_fraction",
     "select_input_source"}

\* C13: in every facade state other than Connected (before async_start, while
\* it awaits, after stop(), after the transport reported closure) each
\* command-sending operation fails and writes nothing to the transport.
C13_CommandsFailUnlessConnected ==
    (op \in CommandOps /\ ~Connected) => (raised /\ sent = <<>>)

\* C14: async_start while the device is Starting or Connected is a no-op:
\* over every interleaving of async_start calls at most one transport is
\* established and the device's transport and protocol are never replaced.
C14_StartEstablishesOneTransport ==
    /\ Len(transports) <= 1
    /\ _transport \in {None, Some(1)}
    /\ _protocol \in {None, Some(1)}

\* C15: when the transport reports closure the device moves to Stopped: it
\* holds neither that transport nor its protocol any more.
C15_ClosureStopsDevice ==
    \A i \in DOMAIN transports :
        transports[i].lost => (_transport # Some(i) /\ _protocol # Some(i))

\* C16: after stop() device.status no longer returns the snapshot of the
\* closed connection.
C16_StatusDiscardedOnStop ==
    op = "stop" => _status = None

\* C17: volume_fraction_to_decibels rejects every fraction outside [0, 1],
\* volume_decibels_to_fraction rejects every value outside [-95.5, 0.0] dB,
\* and set_volume_level_fraction with a fraction outside [0, 1] fails and
\* sends no command.
C17_OutOfRangeRejected ==
    /\ (op = "volume_fraction_to_decibels" /\ (param < 0 \/ param > 100)) =>
           (raised /\ result = None)
    /\ (op = "volume_decibels_to_fraction" /\ (param < -95500 \/ param > 0)) =>
           (raised /\ result = None)
    /\ (op = "set_volume_level_fraction" /\ (param < 0 \/ param > 100)) =>
           (raised /\ sent = <<>>)

\* C17 witness: a connected device refused set_volume_level_fraction(1.1)
\* and sent nothing
C17_Witness ==
    /\ Connected
    /\ op = "set_volume_level_fraction"
    /\ param = 110
    /\ raised
    /\ sent = <<>>

\* C18: in every reachable state of the reassembler, after any sequence of
\* chunks of any length, the pending buffer holds at most 16 bytes.
C18_BufferBounded ==
    Len(_buffer) <= 16

\* C18 witness: a pending partial that grew to exactly 16 bytes by appending
\* an unterminated segment
C18_Witness ==
    /\ op = "data_received"
    /\ Len(_buffer) = 16
    /\ arg = Fill(FillLen)
    /\ ~overflowed

\* the buffer segment j of a chunk is processed against, given the buffer
\* before the chunk
Base(buffer, j) == IF j = 1 THEN buffer ELSE _MESSAGE_START_STR

\* the segments of chunk that are processed with a pending start token
Pending(buffer, chunk) ==
    LET segs == Split(chunk, _MESSAGE_START_STR)
    IN  {j \in DOMAIN segs :
            /\ segs[j] # <<>>
            /\ StartsWith(Base(buffer, j), _MESSAGE_START_STR)}

\* those of them that have no end token
Unterminated(buffer, chunk) ==
    LET segs == Split(chunk, _MESSAGE_START_STR)
    IN  {j \in Pending(buffer, chunk) : \A i \in DOMAIN segs[j] : segs[j][i] # SQ}

\* C19: when a segment processed with a pending start token has no end token,
\* processing of the chunk stops at that segment, whether or not the buffer
\* overflowed: the messages emitted are those of the segments before it, none
\* comes from a later segment, and no later segment is added to the buffer.
C19_StopsAtUnterminatedSegment ==
    [][(op' = "data_received" /\ ~raised' /\ Unterminated(_buffer, arg') # {}) =>
           LET segs == Split(arg', _MESSAGE_START_STR)
               k == CHOOSE j \in Unterminated(_buffer, arg') :
                        \A i \in Unterminated(_buffer, arg') : j <= i
               before == {j \in Pending(_buffer, arg') : j < k}
           IN  /\ Len(emitted') = Cardinality(before)
               /\ \A i \in DOMAIN emitted' :
                      \E j \in before : emitted'[i] = Base(_buffer, j) \o segs[j]
               /\ _buffer' \in {<<>>, Base(_buffer, k) \o segs[k]}
               /\ overflowed' <=> (_buffer' = <<>>)]_vars

\* C19 witness: '@11'@113' in one chunk: the complete frame after the
\* unterminated segment is neither emitted nor buffered
C19_Witness ==
    /\ op = "data_received"
    /\ arg = <<SQ, AT, "1", "1">> \o POWER_OFF
    /\ emitted = <<>>
    /\ _buffer = <<SQ, AT, "1", "1">>
    /\ ~overflowed

\* chunk has a start token followed by at least one byte that is not part
\* of a further start token
StartThenByte(chunk) ==
    LET segs == Split(chunk, _MESSAGE_START_STR)
    IN  \E j \in 2..Len(segs) : segs[j] # <<>>

\* chunk begins with such a start token
LeadingStart(chunk) ==
    Split(chunk, _MESSAGE_START_STR)[1] = <<>> /\ StartThenByte(chunk)

\* msgs and buffer hold nothing but start tokens and bytes of chunk that
\* follow a start token: nothing of what was pending before the chunk
FromChunkOnly(chunk, msgs, buffer) ==
    LET segs == Split(chunk, _MESSAGE_START_STR)
        later == {_MESSAGE_START_STR \o segs[j] : j \in {i \in 2..Len(segs) : segs[i] # <<>>}}
    IN  /\ \A i \in DOMAIN msgs : msgs[i] \in later
        /\ buffer \in later \cup {<<>>}

\* C20 as stated: a start token followed by at least one byte in a chunk
\* discards whatever partial message is pending when it arrives (the bytes of
\* the chunk before it did not end the partial): the partial's bytes are in no
\* message emitted by the chunk nor in the buffer after it.
C20_StartTokenDiscardsPartial ==
    (/\ op = "data_received" /\ ~raised
     /\ pending # <<>>
     /\ StartThenByte(arg)
     /\ \A i \in DOMAIN Split(arg, _MESSAGE_START_STR)[1] :
            Split(arg, _MESSAGE_START_STR)[1][i] # SQ) =>
        FromChunkOnly(arg, emitted, _buffer)

\* C20, amended: a start token at the beginning of a chunk, followed by at
\* least one byte, discards whatever partial message was pending: the
\* partial's bytes are in no message emitted by the chunk nor in the buffer
\* after it.
C20_LeadingStartTokenDiscardsPartial ==
    (op = "data_received" /\ ~raised /\ pending # <<>> /\ LeadingStart(arg)) =>
        FromChunkOnly(arg, emitted, _buffer)

\* C20 witness: '@113' arrived while '@11 was pending and was emitted alone
C20_Witness ==
    /\ op = "data_received"
    /\ pending = <<SQ, AT, "1", "1">>
    /\ arg = POWER_OFF
    /\ emitted = <<POWER_OFF>>
    /\ _buffer = <<>>

\* the facade is Stopped: an async_start completed and stop() was called
\* since (only line 335 sets _started, together with _protocol, and only
\* stop() clears _protocol)
Stopped == _started /\ _protocol = None

\* C21: Stopped is terminal.  Once async_start has completed and stop() has
\* been called, the device stays Stopped: no step establishes a transport, so
\* the device never becomes Connected again, and every command-sending
\* operation fails and writes nothing.
C21_StoppedIsTerminal ==
    [][Stopped =>
           /\ Stopped'
           /\ Len(transports') = Len(transports)
           /\ (op' \in CommandOps => (raised' /\ sent' = <<>>))]_vars

=============================================================================
